---- MODULE Spec2Model ----
(***************************************************************************)
(* A model of lib/layer.js: the layer tree that mirrors the host's flat    *)
(* layer index space.  Nodes are objects on a heap (a sequence of records, *)
(* an object's address is its position); a LayerGroup owns an ordered      *)
(* sequence of child addresses.  The opaque payload attributes (bounds,    *)
(* visible, clipped, mask, pixels, ...) take no part in any operation and  *)
(* are left out of the node record.                                        *)
(***************************************************************************)
EXTENDS Integers, Sequences, FiniteSets, TLC

VARIABLES heap, root, hist

vars == <<heap, root, hist>>

(***************************************************************************)
(* Bounds of the model.                                                    *)
(***************************************************************************)
MaxNodes == 3       \* nodes below the root in a raw snapshot
MaxOps == 2         \* operations applied after the snapshot was built
MaxSlack == 1       \* how far past getSize() an insertion index is tried
MaxIndex == 4       \* the largest index a change record carries

(***************************************************************************)
(* Values.                                                                 *)
(***************************************************************************)
Null == 0
NoName == ""                    \* an undefined name
NoType == "none"                \* a raw descriptor without a type field
GroupType == "layerSection"
LeafTypesButBackground ==
    {"layer", "shapeLayer", "textLayer", "adjustmentLayer", "smartObjectLayer"}

LeafTypes == {"layer", "shapeLayer", "textLayer", "adjustmentLayer",
              "smartObjectLayer", "backgroundLayer"}
LeafClass(type) ==
    CASE type = "layer" -> "Layer"
      [] type = "shapeLayer" -> "ShapeLayer"
      [] type = "textLayer" -> "TextLayer"
      [] type = "adjustmentLayer" -> "AdjustmentLayer"
      [] type = "smartObjectLayer" -> "SmartObjectLayer"
      [] type = "backgroundLayer" -> "BackgroundLayer"

RECURSIVE getSize(_, _)
RECURSIVE toString(_, _)
RECURSIVE addLayerAtIndex(_, _, _, _)
RECURSIVE addScan(_, _, _, _, _, _)
RECURSIVE findLayer(_, _, _)
RECURSIVE findScan(_, _, _, _, _)
RECURSIVE createLayer(_, _, _)
RECURSIVE buildChildren(_, _, _, _, _)
RECURSIVE insertSorted(_, _)
RECURSIVE sortByIndex(_)

isGroup(h, a) == h[a].cls = "LayerGroup"

(***************************************************************************)
(* BaseLayer: the constructor's fields, toString, getSize, setName.        *)
(***************************************************************************)
BaseLayer(group, raw, cls) ==
    [id |-> raw.id, index |-> raw.index, type |-> raw.type, name |-> raw.name,
     group |-> group, cls |-> cls, layers |-> <<>>]

baseToString(h, a) ==
    h[a].id \o ":" \o (IF h[a].name = NoName THEN "-" ELSE h[a].name)

\* LayerGroup.prototype.getSize reduces over the children from 2;
\* BaseLayer.prototype.getSize is 1.
getSize(h, a) ==
    IF isGroup(h, a)
    THEN LET ls == h[a].layers
             acc[i \in 0..Len(ls)] ==
                 IF i = 0 THEN 2 ELSE acc[i - 1] + getSize(h, ls[i])
         IN acc[Len(ls)]
    ELSE 1

toString(h, a) ==
    IF isGroup(h, a)
    THEN LET ls == h[a].layers
             length == Len(ls)
             acc[i \in 0..length] ==
                 IF i = 0 THEN baseToString(h, a) \o " ["
                 ELSE acc[i - 1] \o toString(h, ls[i])
                        \o (IF i - 1 # length - 1 THEN ", " ELSE "")
         IN acc[length] \o "]"
    ELSE baseToString(h, a)

\* The value setName keeps as previousName (line 54).
previousNameOf(oldName, name) == name

NoRes == [defined |-> FALSE, op |-> "", newName |-> NoName, previousName |-> NoName]

\* setName: the new heap and the returned value (res.defined = FALSE when
\* the function returns nothing).
setName(h, a, name) ==
    IF h[a].name # name
    THEN [heap |-> [h EXCEPT ![a].name = name],
          res |-> [defined |-> TRUE, op |-> "rename", newName |-> name,
                   previousName |-> previousNameOf(h[a].name, name)]]
    ELSE [heap |-> h,
          res |-> [defined |-> FALSE, op |-> "", newName |-> NoName,
                   previousName |-> NoName]]

(***************************************************************************)
(* BaseLayer.prototype._applyChange.  The returned array is a sequence of  *)
(* items: a change result, or the returned array itself.                   *)
(***************************************************************************)
ResultItem(result) == [kind |-> "result", res |-> result]
ArrayItem == [kind |-> "changes", res |-> NoRes]

\* Line 88: "if (change)"; a change record is an object, hence truthy.
pushes(change, result) == TRUE

\* Line 89: "changes.push(changes)".
pushed(result) == ArrayItem

baseApplyChange(h, a, change) ==
    IF h[a].id # change.id
    THEN [ok |-> FALSE, heap |-> h, changes |-> <<>>]
    ELSE IF ~change.hasName
         THEN [ok |-> TRUE, heap |-> h, changes |-> <<>>]
         ELSE [ok |-> TRUE,
               heap |-> setName(h, a, change.name).heap,
               changes |-> IF pushes(change, setName(h, a, change.name).res)
                           THEN <<pushed(setName(h, a, change.name).res)>>
                           ELSE <<>>]

(***************************************************************************)
(* BaseLayer.prototype.detach.                                             *)
(***************************************************************************)
\* parent.layers.some(...): the first position whose child has this id, or
\* -1 (here 0, positions being 1-based).
indexOfId(h, ls, id) ==
    LET hits == {i \in 1..Len(ls) : h[ls[i]].id = id}
    IN IF hits = {} THEN 0 ELSE CHOOSE i \in hits : \A j \in hits : i <= j

removeLast(ls, i) == SubSeq(ls, 1, Len(ls) - 1)

removeAt(ls, i) == SubSeq(ls, 1, i - 1) \o SubSeq(ls, i + 1, Len(ls))

insertAtFront(ls, i, x) == <<x>> \o ls

insertAt(ls, i, x) == SubSeq(ls, 1, i - 1) \o <<x>> \o SubSeq(ls, i, Len(ls))

detach(h, a) ==
    IF h[a].group = Null
    THEN [ok |-> TRUE, heap |-> h]
    ELSE LET parent == h[a].group
             index == indexOfId(h, h[parent].layers, h[a].id)
         IN IF index = 0
            THEN [ok |-> FALSE, heap |-> h]
            ELSE [ok |-> TRUE,
                  heap |-> [h EXCEPT ![parent].layers = removeAt(@, index)]]

(***************************************************************************)
(* LayerGroup.prototype.addLayerAtIndex.                                   *)
(***************************************************************************)
\* currentIndex before the scan (line 183).
startIndex(h, childToAdd) == getSize(h, childToAdd) - 1

nestedTargetOffByOne(targetIndex, currentIndex) == targetIndex - currentIndex

\* The index handed to the nested composite (line 201).
nestedTarget(targetIndex, currentIndex) == targetIndex - (currentIndex + 1)

assignsBeforeAssert(h, g, childToAdd) ==
    [ok |-> FALSE, heap |-> [h EXCEPT ![childToAdd].group = g]]

\* Line 209: the assert throws before lines 210-211 change anything.
assertFails(h, g, childToAdd) == [ok |-> FALSE, heap |-> h]

\* The loop of lines 189-207 and what follows it; index is 1-based.
addScan(h, g, childToAdd, targetIndex, index, currentIndex) ==
    IF index > Len(h[g].layers) \/ targetIndex <= currentIndex
    THEN IF currentIndex = targetIndex
         THEN [ok |-> TRUE,
               heap |-> [h EXCEPT ![childToAdd].group = g,
                                  ![g].layers = insertAt(@, index, childToAdd)]]
         ELSE assertFails(h, g, childToAdd)
    ELSE LET child == h[g].layers[index]
             nextIndex == currentIndex + getSize(h, child)
         IN IF targetIndex < nextIndex /\ isGroup(h, child)
            THEN addLayerAtIndex(h, child, childToAdd,
                                 nestedTarget(targetIndex, currentIndex))
            ELSE addScan(h, g, childToAdd, targetIndex, index + 1, nextIndex)

addLayerAtIndex(h, g, childToAdd, targetIndex) ==
    addScan(h, g, childToAdd, targetIndex, 1, startIndex(h, childToAdd))

(***************************************************************************)
(* LayerGroup.prototype.findLayer.                                         *)
(***************************************************************************)
NotFound == [found |-> FALSE, layer |-> Null, index |-> 0]

groupSkipOffByOne(h, child) == getSize(h, child) - 1

groupSkipNone(h, child) == 0

\* What a composite child without the id adds to currentIndex (line 226).
groupSkip(h, child) == getSize(h, child) - 2

findScan(h, g, id, i, currentIndex) ==
    IF i > Len(h[g].layers)
    THEN NotFound
    ELSE LET child == h[g].layers[i]
         IN IF isGroup(h, child)
            THEN LET result == findLayer(h, child, id)
                     afterGroup == currentIndex + 1 + groupSkip(h, child)
                 IN IF result.found
                    THEN [result EXCEPT !.index = @ + currentIndex + 1]
                    ELSE IF h[child].id = id
                         THEN [found |-> TRUE, layer |-> child,
                               index |-> afterGroup]
                         ELSE findScan(h, g, id, i + 1, afterGroup + 1)
            ELSE IF h[child].id = id
                 THEN [found |-> TRUE, layer |-> child, index |-> currentIndex]
                 ELSE findScan(h, g, id, i + 1, currentIndex + 1)

findLayer(h, g, id) == findScan(h, g, id, 1, 0)

(***************************************************************************)
(* createLayer and the LayerGroup constructor.                             *)
(***************************************************************************)
\* The comparator l1.index - l2.index; a missing index makes it NaN, which
\* no comparison of the sort takes for "greater", so the pair keeps its order.
comesAfter(l1, l2) == l1.hasIndex /\ l2.hasIndex /\ l1.index > l2.index

unsorted(raws) == raws

\* Array.prototype.sort on these short arrays is a stable insertion sort.
insertSorted(s, x) ==
    IF s = <<>> THEN <<x>>
    ELSE IF comesAfter(s[Len(s)], x)
         THEN Append(insertSorted(SubSeq(s, 1, Len(s) - 1), x), s[Len(s)])
         ELSE Append(s, x)

sortByIndex(raws) ==
    IF raws = <<>> THEN <<>>
    ELSE insertSorted(sortByIndex(SubSeq(raws, 1, Len(raws) - 1)), raws[Len(raws)])

CreateFailed(h) == [ok |-> FALSE, heap |-> h, addr |-> Null]

\* The forEach of lines 147-155 from the i-th sorted descriptor on.
buildChildren(h, g, raws, i, targetIndex) ==
    IF i > Len(raws)
    THEN [ok |-> TRUE, heap |-> h, addr |-> g]
    ELSE LET made == createLayer(h, g, raws[i])
         IN IF ~made.ok
            THEN CreateFailed(made.heap)
            ELSE LET t == targetIndex + getSize(made.heap, made.addr) - 1
                     placed == addLayerAtIndex(made.heap, g, made.addr, t)
                 IN IF ~placed.ok
                    THEN CreateFailed(placed.heap)
                    ELSE buildChildren(placed.heap, g, raws, i + 1, t + 1)

LayerGroup(h, group, raw) ==
    LET a == Len(h) + 1
        h1 == Append(h, BaseLayer(group, raw, "LayerGroup"))
    IN IF raw.hasLayers
       THEN buildChildren(h1, a, sortByIndex(raw.layers), 1, 0)
       ELSE [ok |-> TRUE, heap |-> h1, addr |-> a]

Layer(h, group, raw) ==
    [ok |-> TRUE, heap |-> Append(h, BaseLayer(group, raw, LeafClass(raw.type))),
     addr |-> Len(h) + 1]

createLayer(h, parent, rawLayer) ==
    IF parent = Null /\ rawLayer.type = NoType
    THEN LayerGroup(h, Null, rawLayer)
    ELSE IF rawLayer.type = GroupType
         THEN LayerGroup(h, parent, rawLayer)
         ELSE IF rawLayer.type \in LeafTypes
              THEN Layer(h, parent, rawLayer)
              ELSE CreateFailed(h)

(***************************************************************************)
(* LayerGroup.prototype._applyChange.  changedLayers maps an id to an      *)
(* entry: has is hasOwnProperty(id), layer and previousGroup its fields    *)
(* (Null when unset).  log is the trace of what the invocation did, heap   *)
(* and cl what it left behind; an exception ends it with ok = FALSE, err   *)
(* naming it and the mutations made so far kept.                           *)
(***************************************************************************)
RECURSIVE applyChange(_, _, _, _, _, _)
RECURSIVE materialize(_, _, _, _, _, _, _)
RECURSIVE place(_, _, _, _, _, _, _)

Ev(ev, g, id, n) == [ev |-> ev, g |-> g, id |-> id, n |-> n]

Going(h, cl, log, finalSize) ==
    [ok |-> TRUE, err |-> "", heap |-> h, cl |-> cl, log |-> log,
     finalSize |-> finalSize]

Thrown(err, h, cl, log, g, id) ==
    [ok |-> FALSE, err |-> err, heap |-> h, cl |-> cl,
     log |-> Append(log, Ev("throw", g, id, 0)), finalSize |-> 0]

UndefinedIndex == [defined |-> FALSE, value |-> 0]
DefinedIndex(i) == [defined |-> TRUE, value |-> i]

absentOutcomeAlwaysSkip(rawLayerChange) == "skip"

\* A record that is not added and whose id changedLayers lacks (lines 264-270).
absentOutcome(rawLayerChange) ==
    IF rawLayerChange.removed THEN "skip" ELSE "throw"

\* Lines 285-290.
offsetOf(parentIndex, finalSize) ==
    IF ~parentIndex.defined THEN 0 ELSE parentIndex.value - (finalSize - 2)

RECURSIVE nestedChange(_, _, _, _, _)
RECURSIVE afterChild(_, _, _, _, _, _, _, _)
RECURSIVE afterNested(_, _, _, _, _, _)
RECURSIVE placeChild(_, _, _, _, _, _, _, _)
RECURSIVE placeAll(_, _, _, _)

Found(end, h, cl, child) == [end |-> end, heap |-> h, cl |-> cl, child |-> child]

\* Lines 260-262: the record is added; made is what createLayer returned.
adopt(made, cl, id) ==
    IF ~made.ok
    THEN Found("Unknown layer type", made.heap, cl, Null)
    ELSE IF ~cl[id].has
         THEN Found("TypeError", made.heap, cl, Null)
         ELSE Found("", made.heap, [cl EXCEPT ![id].layer = made.addr], made.addr)

\* Lines 260-273: the child of a record, or how the record ended.
childOf(h, cl, g, rawLayerChange) ==
    IF rawLayerChange.added
    THEN adopt(createLayer(h, g, rawLayerChange), cl, rawLayerChange.id)
    ELSE IF ~cl[rawLayerChange.id].has
         THEN Found(IF absentOutcome(rawLayerChange) = "skip"
                    THEN "skip" ELSE "Can't find changed layer", h, cl, Null)
         ELSE Found("", h, cl, cl[rawLayerChange.id].layer)

\* Lines 275-277: the nested invocation on the child of a record.
nestedChange(found, log1, g, rawLayerChange, id) ==
    IF ~rawLayerChange.hasLayers
    THEN Going(found.heap, found.cl, log1, 0)
    ELSE IF found.child = Null
         THEN Thrown("TypeError", found.heap, found.cl, log1, g, id)
         ELSE IF isGroup(found.heap, found.child)
              THEN applyChange(found.heap, found.cl, log1, found.child,
                               rawLayerChange.layers,
                               DefinedIndex(rawLayerChange.index))
              \* BaseLayer.prototype._applyChange takes changedLayers for
              \* the change record: it has no id to match
              ELSE Thrown("Layer ID mismatch.", found.heap, found.cl, log1, g, id)

placeAtOnce(nested, child, g, changes, i, finalSize) ==
    IF ~nested.ok \/ child = Null
    THEN nested
    ELSE materialize(addLayerAtIndex(nested.heap, g, child, changes[i].index).heap,
                     nested.cl,
                     Append(nested.log,
                            Ev("place", g, changes[i].id, changes[i].index)),
                     g, changes, i + 1, finalSize)

\* Lines 279-281 and on to the next record; nested is what lines 275-277 left.
afterNested(nested, child, g, changes, i, finalSize) ==
    IF ~nested.ok
    THEN nested
    ELSE IF changes[i].removed
         THEN materialize(nested.heap, nested.cl, nested.log, g, changes,
                          i + 1, finalSize)
         ELSE IF child = Null
              THEN Thrown("TypeError", nested.heap, nested.cl, nested.log, g,
                          changes[i].id)
              ELSE materialize(nested.heap, nested.cl, nested.log, g, changes,
                               i + 1, finalSize + getSize(nested.heap, child))

\* Lines 264-282 for the i-th record; found is what lines 260-273 left.
afterChild(found, h, cl, log, g, changes, i, finalSize) ==
    IF found.end = "skip"
    THEN materialize(h, cl, Append(log, Ev("absent", g, changes[i].id, 0)), g,
                     changes, i + 1, finalSize)
    ELSE IF found.end # ""
         THEN Thrown(found.end, found.heap, found.cl, log, g, changes[i].id)
         ELSE afterNested(
                  nestedChange(found,
                               Append(log, Ev("materialize", g, changes[i].id, 0)),
                               g, changes[i], changes[i].id),
                  found.child, g, changes, i, finalSize)

\* The first forEach (lines 252-282) from the i-th sorted record on.
materialize(h, cl, log, g, changes, i, finalSize) ==
    IF i > Len(changes)
    THEN Going(h, cl, log, finalSize)
    ELSE IF ~changes[i].hasIndex
         THEN materialize(h, cl, log, g, changes, i + 1, finalSize)
         ELSE afterChild(childOf(h, cl, g, changes[i]), h, cl, log, g, changes,
                         i, finalSize)

\* Lines 304-310 for the i-th record; added is what addLayerAtIndex returned.
placeChild(added, cl1, log, g, changes, i, offset, relativeIndex) ==
    IF ~added.ok
    THEN Thrown("Invalid insertion index", added.heap, cl1, log, g, changes[i].id)
    ELSE place(added.heap, cl1,
               Append(log, Ev("place", g, changes[i].id, relativeIndex)),
               g, changes, i + 1, offset)

\* The second forEach (lines 292-311) from the i-th sorted record on.
place(h, cl, log, g, changes, i, offset) ==
    IF i > Len(changes)
    THEN Going(h, cl, log, 0)
    ELSE IF ~changes[i].hasIndex \/ changes[i].removed
         THEN place(h, cl, log, g, changes, i + 1, offset)
         ELSE IF ~cl[changes[i].id].has
              THEN place(h, cl, Append(log, Ev("warn", g, changes[i].id, 0)), g,
                         changes, i + 1, offset)
              ELSE IF cl[changes[i].id].layer = Null
                   THEN Thrown("TypeError", h, cl, log, g, changes[i].id)
                   ELSE placeChild(
                            addLayerAtIndex(h, g, cl[changes[i].id].layer,
                                            changes[i].index - offset),
                            [cl EXCEPT ![changes[i].id].previousGroup =
                                           h[cl[changes[i].id].layer].group],
                            log, g, changes, i, offset,
                            changes[i].index - offset)

\* Lines 284-311; first is what the first forEach left.
placeAll(first, g, sorted, parentIndex) ==
    IF ~first.ok
    THEN first
    ELSE place(first.heap, first.cl,
               Append(first.log, Ev("sized", g, first.heap[g].id, first.finalSize)),
               g, sorted, 1, offsetOf(parentIndex, first.finalSize))

\* Lines 245-282 on the sorted records.
applySorted(h, cl, log, g, sorted, parentIndex) ==
    placeAll(materialize(h, cl, Append(log, Ev("enter", g, h[g].id, 0)), g,
                         sorted, 1, getSize(h, g)),
             g, sorted, parentIndex)

applyChange(h, cl, log, g, rawLayerChanges, parentIndex) ==
    applySorted(h, cl, log, g, sortByIndex(rawLayerChanges), parentIndex)

(***************************************************************************)
(* Raw descriptors.  One record shape serves the snapshot descriptors and  *)
(* the change records (an added change record is handed to createLayer).   *)
(***************************************************************************)
Raw(id, type, index, name, layers) ==
    [id |-> id, type |-> type, hasIndex |-> TRUE, index |-> index,
     hasName |-> name # NoName, name |-> name, added |-> FALSE,
     removed |-> FALSE, hasLayers |-> layers # <<>>, layers |-> layers]

LeafIds == {"A", "B"}
GroupIds == {"G", "H"}
IdOrder == <<"A", "B", "G", "H">>
RootId == "root"

RECURSIVE rawOf(_, _, _, _, _)
\* The descriptor of node x of a document with nodes S, owner par[x], sibling
\* order ord; the raw array lists the children in IdOrder, or reversed.
rawOf(x, S, par, ord, rev) ==
    LET kids == SelectSeq(IdOrder, LAMBDA y : y \in S /\ par[y] = x)
        n == Len(kids)
        arr == [i \in 1..n |-> IF rev THEN kids[n + 1 - i] ELSE kids[i]]
        index == IF x = RootId THEN 0
                 ELSE Cardinality({z \in S : par[z] = par[x] /\ ord[z] < ord[x]})
        type == IF x = RootId THEN NoType
                ELSE IF x \in GroupIds THEN GroupType ELSE "layer"
    IN Raw(x, type, index, IF x = RootId THEN NoName ELSE x,
           [i \in 1..n |-> rawOf(arr[i], S, par, ord, rev)])

Owners(S) ==
    {par \in [S -> {RootId} \cup (S \cap GroupIds)] :
        /\ \A x \in S : par[x] # x
        /\ ~(\E x, y \in S : x # y /\ par[x] = y /\ par[y] = x)}

Orders(S) ==
    {ord \in [S -> 1..Cardinality(S)] : \A x, y \in S : x # y => ord[x] # ord[y]}

Ids == LeafIds \cup GroupIds

RawSnapshots ==
    UNION {{rawOf(RootId, S, par, ord, rev) :
               par \in Owners(S), ord \in Orders(S), rev \in BOOLEAN} :
           S \in {T \in SUBSET Ids : Cardinality(T) <= MaxNodes}}

\* Descriptors of nodes a caller creates outside the snapshot.
\* The type tags the host uses for leaves.
LeafTags ==
    {"layer", "shapeLayer", "textLayer", "adjustmentLayer", "smartObjectLayer",
     "backgroundLayer"}

\* Descriptors handed to the factory on their own: every leaf type, an
\* unrecognized type, no type, composites, a composite holding a descriptor
\* of unrecognized type, and a descriptor of a document.
CreateRaws ==
    {Raw("C", type, 0, "C", <<>>) : type \in LeafTags \cup {"bogus", NoType}}
        \cup {Raw("E", GroupType, 0, "E", <<>>),
              Raw("F", GroupType, 0, "F", <<Raw("D", "textLayer", 0, "D", <<>>)>>),
              Raw("F", GroupType, 0, "F", <<Raw("D", "bogus", 0, "D", <<>>)>>),
              Raw("R", NoType, 0, NoName, <<Raw("D", "shapeLayer", 0, "D", <<>>)>>)}

FreeRaws ==
    {Raw("C", "layer", 0, "C", <<>>),
     Raw("E", GroupType, 0, "E", <<>>),
     Raw("F", GroupType, 0, "F", <<Raw("D", "textLayer", 0, "D", <<>>)>>)}

Names == {"A", "A2"}

(***************************************************************************)
(* Change records and the batches handed to the change applicator.         *)
(***************************************************************************)
Change(id, type, index, mode, layers) ==
    [id |-> id, type |-> type, hasIndex |-> TRUE, index |-> index,
     hasName |-> FALSE, name |-> NoName, added |-> mode = "added",
     removed |-> mode = "removed", hasLayers |-> layers # <<>>,
     layers |-> layers]

Renamed(rec, name) == [rec EXCEPT !.hasName = TRUE, !.name = name]
Unindexed(rec) == [rec EXCEPT !.hasIndex = FALSE]

Idx == 0..MaxIndex
MarkerId == "Z"          \* an id the caller never registered
NewLeafId == "C"
NewGroupId == "E"

\* Records for the nodes of the document with ids L (leaves) and G (groups).
Kept(L, G) == {Change(x, NoType, i, "plain", <<>>) : x \in L \cup G, i \in Idx}
Removed(L, G) == {Change(x, NoType, i, "removed", <<>>) : x \in L \cup G, i \in Idx}
AddedLeaf == {Change(NewLeafId, "layer", i, "added", <<>>) : i \in Idx}
AddedGroup == {Change(NewGroupId, GroupType, i, "added", <<>>) : i \in Idx}
Marker ==
    {Change(MarkerId, IF m = "added" THEN "layer" ELSE NoType, i, m, <<>>) :
        m \in {"plain", "removed", "added"}, i \in Idx}
Placed(L, G) == Kept(L, G) \cup AddedLeaf \cup AddedGroup
Simple(L, G) == Placed(L, G) \cup Removed(L, G) \cup Marker

Named(L, G) ==
    {Renamed(r, "A2") : r \in Kept(L, G)}
        \cup {Unindexed(Renamed(r, "A2")) : r \in {q \in Kept(L, G) : q.index = 0}}

\* A record of a composite with one nested record below it, of lower index.
Nested(L, G) ==
    UNION {{[p EXCEPT !.hasLayers = TRUE, !.layers = <<c>>] :
               c \in {q \in Kept(L, {}) \cup AddedLeaf : q.index < p.index}} :
           p \in Kept({}, G) \cup AddedGroup}

Trailing ==
    {Change(MarkerId, NoType, MaxIndex, m, <<>>) : m \in {"plain", "removed"}}

Batches(L, G) ==
    {<<r>> : r \in Simple(L, G) \cup Named(L, G) \cup Nested(L, G)}
        \cup {<<r, c>> : r \in Placed(L, G), c \in AddedLeaf \cup Trailing}
        \cup {<<r, z>> : r \in Nested(L, G), z \in Trailing}

RECURSIVE recordsOf(_)
\* Every record of a batch, the nested ones included.
recordsOf(changes) ==
    UNION {{changes[i]} \cup recordsOf(changes[i].layers) : i \in 1..Len(changes)}

RECURSIVE countIds(_, _)
countIds(changes, id) ==
    LET acc[i \in 0..Len(changes)] ==
            IF i = 0 THEN 0
            ELSE acc[i - 1] + (IF changes[i].id = id THEN 1 ELSE 0)
                   + countIds(changes[i].layers, id)
    IN acc[Len(changes)]

DistinctIds(changes) ==
    \A r \in recordsOf(changes) : countIds(changes, r.id) = 1


(***************************************************************************)
(* The tree below a composite.                                             *)
(***************************************************************************)
RECURSIVE subtree(_, _)
\* The addresses reachable from a through child sequences, a included.
subtree(h, a) ==
    {a} \cup UNION {subtree(h, h[a].layers[i]) : i \in 1..Len(h[a].layers)}

InTree(h, r, a) == r # Null /\ a \in subtree(h, r)

Addrs(h) == 1..Len(h)

idsBelow(h, a) == {h[n].id : n \in subtree(h, a) \ {a}}

\* a is an entry of some composite's child sequence.
Attached(h, a) ==
    \E p \in Addrs(h) : \E i \in 1..Len(h[p].layers) : h[p].layers[i] = a

(***************************************************************************)
(* The state machine: a caller builds one snapshot and then applies        *)
(* operations to it; hist records each operation with the heap before it.  *)
(***************************************************************************)
Op(op, a, g, t, name, ok, res) ==
    [op |-> op, a |-> a, g |-> g, t |-> t, name |-> name, ok |-> ok,
     res |-> res, pre |-> heap]

Init == heap = <<>> /\ root = Null /\ hist = <<>>

Snapshot(raw) ==
    /\ root = Null
    /\ LET made == createLayer(heap, Null, raw)
       IN /\ made.ok
          /\ heap' = made.heap
          /\ root' = made.addr
    /\ UNCHANGED hist

CanStep == root # Null /\ Len(hist) < MaxOps

\* A caller creates a node through the exported factory without placing it.
CreateLayer(parent, raw) ==
    /\ CanStep
    /\ LET made == createLayer(heap, parent, raw)
       IN /\ heap' = made.heap
          /\ hist' = Append(hist, [op |-> "create", a |-> made.addr,
                                   g |-> parent, t |-> 0, name |-> NoName,
                                   ok |-> made.ok, res |-> NoRes,
                                   pre |-> heap, raw |-> raw])
    /\ UNCHANGED root

Detach(a) ==
    /\ CanStep
    /\ LET r == detach(heap, a)
       IN /\ heap' = r.heap
          /\ hist' = Append(hist, Op("detach", a, heap[a].group, 0, NoName, r.ok, NoRes))
    /\ UNCHANGED root

\* g is a composite of the tree, n a node that no composite holds (a node
\* still held elsewhere would get two owners).
AddLayerAtIndex(g, n, t) ==
    /\ CanStep
    /\ InTree(heap, root, g) /\ isGroup(heap, g)
    /\ n # root /\ ~Attached(heap, n)
    /\ LET r == addLayerAtIndex(heap, g, n, t)
       IN /\ heap' = r.heap
          /\ hist' = Append(hist, Op("add", n, g, t, NoName, r.ok, NoRes))
    /\ UNCHANGED root

SetName(a, name) ==
    /\ CanStep
    /\ LET r == setName(heap, a, name)
       IN /\ heap' = r.heap
          /\ hist' = Append(hist, Op("setName", a, Null, 0, name, TRUE, r.res))
    /\ UNCHANGED root

\* The records handed to a leaf: its own id or another, with or without a
\* name field.
LeafChanges(id) ==
    UNION {{Unindexed(Change(x, NoType, 0, "plain", <<>>))}
               \cup {Renamed(Change(x, NoType, 0, "plain", <<>>), name) :
                        name \in Names} :
           x \in {id, MarkerId}}

BaseApplyChange(a, change) ==
    /\ CanStep
    /\ ~isGroup(heap, a)
    /\ \E r \in {baseApplyChange(heap, a, change)} :
          /\ heap' = r.heap
          /\ hist' = Append(hist, [op |-> "applyLeaf", a |-> a, g |-> Null,
                                   t |-> 0, name |-> change.name, ok |-> r.ok,
                                   res |-> NoRes, pre |-> heap,
                                   change |-> change, changes |-> r.changes])
    /\ UNCHANGED root

ClIds == Ids \cup {NewLeafId, NewGroupId, MarkerId}

addressOf(h, id) ==
    CHOOSE a \in Addrs(h) : h[a].id = id /\ \A b \in Addrs(h) : h[b].id = id => a <= b

\* The table the caller hands in: an entry with the node for every node of
\* the document, an empty entry for the ids about to be added, none for
\* MarkerId.
changedLayersOf(h, r) ==
    [id \in ClIds |->
        IF id \in idsBelow(h, r)
        THEN [has |-> TRUE, layer |-> addressOf(h, id), previousGroup |-> Null]
        ELSE [has |-> id # MarkerId, layer |-> Null, previousGroup |-> Null]]

RECURSIVE detachAll(_, _)
detachAll(h, nodes) ==
    IF nodes = {} THEN h
    ELSE LET a == CHOOSE x \in nodes : TRUE
         IN detachAll(detach(h, a).heap, nodes \ {a})

\* The nodes of the document that the index-carrying records of a batch name.
namedNodes(h, r, changes) ==
    {addressOf(h, rec.id) :
        rec \in {q \in recordsOf(changes) :
                    q.hasIndex /\ ~q.added /\ q.id \in idsBelow(h, r)}}

\* One invocation of the change applicator on the root.  The caller either
\* detaches the nodes the batch names beforehand or leaves them in place (a
\* composite is never left in place: it could be placed below itself).
\* pre is the heap the applicator starts from, cl0 the table it is handed.
ApplyChange(changes, detachFirst) ==
    /\ root # Null /\ hist = <<>>
    /\ DistinctIds(changes)
    /\ LET named == namedNodes(heap, root, changes)
           prepared == IF detachFirst THEN detachAll(heap, named) ELSE heap
           cl0 == changedLayersOf(heap, root)
       IN /\ detachFirst \/ \A a \in named : ~isGroup(heap, a)
          /\ \E run \in {applyChange(prepared, cl0, <<>>, root, changes,
                                     UndefinedIndex)} :
                /\ heap' = run.heap
                /\ hist' = <<[op |-> "apply", a |-> Null, g |-> root, t |-> 0,
                              name |-> NoName, ok |-> run.ok, res |-> NoRes,
                              pre |-> prepared, changes |-> changes,
                              detached |-> detachFirst, cl0 |-> cl0,
                              cl |-> run.cl, log |-> run.log,
                              err |-> run.err]>>
    /\ UNCHANGED root

leafIdsOf(h, r) == {h[n].id : n \in {m \in subtree(h, r) \ {r} : ~isGroup(h, m)}}
groupIdsOf(h, r) == {h[n].id : n \in {m \in subtree(h, r) \ {r} : isGroup(h, m)}}

\* The nodes an operation may be applied to.
Targets == IF CanStep THEN Addrs(heap) ELSE {}
Composites == {g \in Targets : isGroup(heap, g) /\ InTree(heap, root, g)}
Loose == {n \in Targets : n # root /\ ~Attached(heap, n)}

\* Structural operations on one snapshot.
Next ==
    \/ \E raw \in (IF root = Null THEN RawSnapshots ELSE {}) : Snapshot(raw)
    \/ \E raw \in FreeRaws : CreateLayer(root, raw)
    \/ \E a \in Targets : Detach(a)
    \/ \E g \in Composites, n \in Loose :
           \E t \in -1..(getSize(heap, g) + MaxSlack) : AddLayerAtIndex(g, n, t)

Spec == Init /\ [][Next]_vars

\* Renaming on one snapshot.
NextName ==
    \/ \E raw \in (IF root = Null THEN RawSnapshots ELSE {}) : Snapshot(raw)
    \/ \E a \in Targets, name \in Names : SetName(a, name)
    \/ \E a \in Targets :
           \E change \in LeafChanges(heap[a].id) : BaseApplyChange(a, change)

SpecName == Init /\ [][NextName]_vars

\* One call of the factory on one snapshot, with any parent.
NextCreate ==
    \/ \E raw \in (IF root = Null THEN RawSnapshots ELSE {}) : Snapshot(raw)
    \/ \E raw \in (IF root # Null /\ hist = <<>> THEN CreateRaws ELSE {}) :
           \E parent \in {Null} \cup Composites : CreateLayer(parent, raw)

SpecCreate == Init /\ [][NextCreate]_vars

\* One change batch applied to one snapshot.
NextChange ==
    \/ \E raw \in (IF root = Null THEN RawSnapshots ELSE {}) : Snapshot(raw)
    \/ \E changes \in (IF root # Null /\ hist = <<>>
                        THEN Batches(leafIdsOf(heap, root), groupIdsOf(heap, root))
                        ELSE {}) :
           \E detachFirst \in (IF Len(changes) = 1 THEN BOOLEAN ELSE {TRUE}) :
               ApplyChange(changes, detachFirst)

SpecChange == Init /\ [][NextChange]_vars

(***************************************************************************)
(* Reference notions the properties are stated with.                       *)
(***************************************************************************)
RECURSIVE slots(_, _)
\* The preorder-with-markers traversal of the children of composite a: one
\* slot per leaf, an opening and a closing slot per composite.
slots(h, a) ==
    LET ls == h[a].layers
        acc[i \in 0..Len(ls)] ==
            IF i = 0 THEN <<>>
            ELSE acc[i - 1] \o
                 (IF isGroup(h, ls[i])
                  THEN <<[node |-> ls[i], mark |-> "open"]>> \o slots(h, ls[i])
                         \o <<[node |-> ls[i], mark |-> "close"]>>
                  ELSE <<[node |-> ls[i], mark |-> "leaf"]>>)
    IN acc[Len(ls)]

\* How many slots of the traversal of a's children precede the slot of n
\* with the given mark; -1 when there is none.
slotIndex(h, a, n, mark) ==
    LET s == slots(h, a)
        hits == {i \in 1..Len(s) : s[i].node = n /\ s[i].mark = mark}
    IN IF hits = {} THEN -1 ELSE (CHOOSE i \in hits : \A j \in hits : i <= j) - 1

OtherIds == Ids \cup {"C", "D", "E", "F"}

Done == Len(hist)
last == hist[Len(hist)]
Built == root # Null /\ hist = <<>>

\* The last operation was addLayerAtIndex of a node whose id the tree did
\* not hold.
Added ==
    /\ Done > 0
    /\ last.op = "add"
    /\ heap[last.a].id \notin idsBelow(last.pre, root)

ScenarioTree == "root:- [A:A, G:G [B:B]]"

(***************************************************************************)
(* C1.  In every tree built by snapshot construction, findLayer on the     *)
(* root returns, for each leaf, that leaf and the number of slots that     *)
(* precede it in the preorder-with-markers traversal; it returns nothing   *)
(* for an id the tree does not hold; in root[A, G[B]] it gives B index 2.  *)
(***************************************************************************)
C1_FindLeaf ==
    Built =>
        /\ \A n \in subtree(heap, root) \ {root} :
               ~isGroup(heap, n) =>
                   LET r == findLayer(heap, root, heap[n].id)
                   IN /\ r.found
                      /\ r.layer = n
                      /\ r.index = slotIndex(heap, root, n, "leaf")
        /\ \A id \in OtherIds \ idsBelow(heap, root) :
               ~findLayer(heap, root, id).found
        /\ toString(heap, root) = ScenarioTree =>
               findLayer(heap, root, "B").index = 2

C1_Witness ==
    /\ Built
    /\ toString(heap, root) = ScenarioTree
    /\ findLayer(heap, root, "B").found
    /\ findLayer(heap, root, "B").index = 2

(***************************************************************************)
(* C2.  Adding a leaf that the tree does not hold to a composite g at      *)
(* index t succeeds exactly when 0 <= t <= g.getSize() - 2; after a        *)
(* success the leaf is below g, owned by g or by a composite below g, and  *)
(* g.findLayer gives it index t.                                           *)
(***************************************************************************)
C2_AddLeaf ==
    (Added /\ ~isGroup(heap, last.a)) =>
        /\ last.ok <=> (0 <= last.t /\ last.t <= getSize(last.pre, last.g) - 2)
        /\ last.ok =>
               LET r == findLayer(heap, last.g, heap[last.a].id)
               IN /\ last.a \in subtree(heap, last.g)
                  /\ heap[last.a].group \in subtree(heap, last.g)
                  /\ isGroup(heap, heap[last.a].group)
                  /\ r.found /\ r.layer = last.a /\ r.index = last.t

\* A leaf placed through the recursion: its owner is a composite below g.
C2_Witness ==
    /\ Added /\ ~isGroup(heap, last.a) /\ last.ok
    /\ heap[last.a].group # last.g
    /\ findLayer(heap, last.g, heap[last.a].id).index = last.t
    /\ last.t > 1

(***************************************************************************)
(* C5.  Adding a composite c that the tree does not hold to g at an index  *)
(* t inside the span of a composite child h of g succeeds, makes c a node  *)
(* below h, and g.findLayer gives c index t.  A composite's index is that  *)
(* of its last slot, so c takes the slots t - (size - 1) .. t; t is inside *)
(* h's span when the first of them lies after h's opening slot and not     *)
(* after h's closing slot, which is when the scan recurses into h.         *)
(***************************************************************************)
\* The slots of g's children that precede its k-th child.
slotsBefore(h, g, k) ==
    LET ls == h[g].layers
        acc[i \in 0..(k - 1)] ==
            IF i = 0 THEN 0 ELSE acc[i - 1] + getSize(h, ls[i])
    IN acc[k - 1]

InsideSpan(h, g, k, c, t) ==
    LET child == h[g].layers[k]
        open == slotsBefore(h, g, k)
        first == t - (getSize(h, c) - 1)
    IN /\ isGroup(h, child)
       /\ open < first
       /\ first <= open + getSize(h, child) - 1

C5_AddCompositeNested ==
    (Added /\ isGroup(heap, last.a)) =>
        \A k \in 1..Len(last.pre[last.g].layers) :
            InsideSpan(last.pre, last.g, k, last.a, last.t) =>
                LET r == findLayer(heap, last.g, heap[last.a].id)
                IN /\ last.ok
                   /\ last.a \in subtree(heap, last.pre[last.g].layers[k])
                   /\ r.found /\ r.layer = last.a /\ r.index = last.t

(***************************************************************************)
(* C10.  As claimed: adding any node that the tree does not hold to g at   *)
(* index g.getSize() - 1 (taken before the call) succeeds and makes the    *)
(* node the last entry of g's own child sequence.                          *)
(***************************************************************************)
C10_AppendAtSizeMinusOne ==
    (Added /\ last.t = getSize(last.pre, last.g) - 1) =>
        /\ last.ok
        /\ heap[last.g].layers = Append(last.pre[last.g].layers, last.a)

(***************************************************************************)
(* C10 as amended.  Adding any node n that the tree does not hold to g at  *)
(* index g.getSize() - 3 + n.getSize() (sizes taken before the call: that  *)
(* is g.getSize() - 2 for a leaf and g.getSize() - 1 for an empty          *)
(* composite) succeeds and makes n the last entry of g's own child         *)
(* sequence, the other entries unchanged.                                  *)
(***************************************************************************)
C10_AppendAtEnd ==
    (Added /\ last.t = getSize(last.pre, last.g) - 3 + getSize(last.pre, last.a)) =>
        /\ last.ok
        /\ heap[last.g].layers = Append(last.pre[last.g].layers, last.a)
        /\ heap[last.a].group = last.g

\* A leaf appended behind two children, the last of them a composite.
C10_Witness ==
    /\ Added /\ last.ok
    /\ ~isGroup(heap, last.a)
    /\ last.t = getSize(last.pre, last.g) - 2
    /\ Len(last.pre[last.g].layers) >= 2
    /\ isGroup(heap, last.pre[last.g].layers[Len(last.pre[last.g].layers)])
    /\ heap[last.g].layers = Append(last.pre[last.g].layers, last.a)

(***************************************************************************)
(* C3.  Round trip: for a node n of the tree other than the root, with i   *)
(* the index root.findLayer(n.id) gave before, n.detach() followed by      *)
(* root.addLayerAtIndex(n, i) succeeds and leaves root.toString() as it    *)
(* was before the detach.                                                  *)
(***************************************************************************)
\* The last two operations were n.detach() of a node of the tree and
\* root.addLayerAtIndex(n, i) with i the index findLayer gave before.
RoundTrip ==
    /\ Done >= 2
    /\ LET d == hist[Done - 1]
       IN /\ d.op = "detach" /\ d.ok
          /\ InTree(d.pre, root, d.a)
          /\ last.op = "add" /\ last.a = d.a /\ last.g = root
          /\ last.t = findLayer(d.pre, root, d.pre[d.a].id).index

C3_RoundTrip ==
    RoundTrip =>
        /\ last.ok
        /\ toString(heap, root) = toString(hist[Done - 1].pre, root)

\* The part of the round trip that the code does deliver: leaves at any
\* depth and nodes held by the root itself.
C3_RoundTripLeafOrTop ==
    (RoundTrip /\ (~isGroup(heap, last.a) \/ hist[Done - 1].g = root)) =>
        /\ last.ok
        /\ toString(heap, root) = toString(hist[Done - 1].pre, root)

(***************************************************************************)
(* C9.  setName(newName): when newName is the current name it returns      *)
(* nothing and leaves the name unchanged; otherwise it sets the name and   *)
(* returns a rename result with newName and, as previous name, the name    *)
(* the node held immediately before the call.                              *)
(***************************************************************************)
C9_SetName ==
    (Done > 0 /\ last.op = "setName") =>
        LET before == last.pre[last.a].name
        IN IF last.name = before
           THEN ~last.res.defined /\ heap[last.a].name = before
           ELSE /\ heap[last.a].name = last.name
                /\ last.res.defined
                /\ last.res.op = "rename"
                /\ last.res.newName = last.name
                /\ last.res.previousName = before

\* What setName does deliver: everything but the previous name.
C9_SetNameWithoutPrevious ==
    (Done > 0 /\ last.op = "setName") =>
        LET before == last.pre[last.a].name
        IN IF last.name = before
           THEN ~last.res.defined /\ heap = last.pre
           ELSE /\ heap[last.a].name = last.name
                /\ last.res.defined
                /\ last.res.op = "rename"
                /\ last.res.newName = last.name

(***************************************************************************)
(* The change applicator: notions the properties are stated with.          *)
(***************************************************************************)
Applied == Done > 0 /\ last.op = "apply"

Events(ev) == {last.log[i] : i \in {j \in 1..Len(last.log) : last.log[j].ev = ev}}

\* An index-carrying record that is not added and names an id that
\* changedLayers lacks.
Absent(rec) == rec.hasIndex /\ ~rec.added /\ ~last.cl0[rec.id].has

RECURSIVE without(_, _)
\* The batch without the records of set drop, at any depth.
without(changes, drop) ==
    LET kept == SelectSeq(changes, LAMBDA r : r \notin drop)
    IN [i \in 1..Len(kept) |->
           [kept[i] EXCEPT !.layers = without(kept[i].layers, drop)]]

\* What the same invocation does on another batch.
Rerun(changes) ==
    applyChange(last.pre, last.cl0, <<>>, root, changes, UndefinedIndex)

\* The invocations a batch asks for: the composite and the records it gets.
RECURSIVE invocations(_, _)
invocations(g, changes) ==
    {<<g, changes>>} \cup
    UNION {invocations(last.cl[changes[i].id].layer, changes[i].layers) :
              i \in {j \in 1..Len(changes) :
                        changes[j].hasLayers /\ last.cl[changes[j].id].has}}

Entered(g) == \E e \in Events("enter") : e.g = g

(***************************************************************************)
(* C8.  When the batch applied to the root holds a record for an existing  *)
(* node whose name field differs from the node's name, the applicator sets *)
(* the node's name to it and returns a rename result whose previous name   *)
(* is the name the node had before; so for [{id: A, index: 0, name: A2}]   *)
(* on root[A, G[B]].                                                       *)
(***************************************************************************)
C8_ApplyRename ==
    (Applied /\ last.ok) =>
        \A i \in 1..Len(last.changes) :
            LET rec == last.changes[i]
                node == last.cl0[rec.id].layer
            IN (rec.hasName /\ node # Null /\ rec.name # last.pre[node].name) =>
                   /\ heap[node].name = rec.name
                   /\ last.res.defined
                   /\ last.res.op = "rename"
                   /\ last.res.previousName = last.pre[node].name

(***************************************************************************)
(* C6.  For an index-carrying record that is not added and whose id        *)
(* changedLayers lacks: marked removed it is skipped, without effect on    *)
(* the tree or on finalSize (the invocation does what it does without the  *)
(* record); not marked removed it makes the invocation fail, and no        *)
(* placement has been made on the composite processing it.                 *)
(***************************************************************************)
C6_AbsentRecord ==
    Applied =>
        /\ LET drop == {r \in recordsOf(last.changes) : Absent(r) /\ r.removed}
               rest == Rerun(without(last.changes, drop))
           IN /\ rest.ok = last.ok /\ rest.err = last.err
              /\ rest.heap = heap /\ rest.cl = last.cl
              /\ SelectSeq(last.log, LAMBDA e : e.ev # "absent") = rest.log
        /\ \A inv \in invocations(root, last.changes) :
               (/\ Entered(inv[1])
                /\ \E i \in 1..Len(inv[2]) : Absent(inv[2][i]) /\ ~inv[2][i].removed)
               => /\ ~last.ok
                  /\ \A e \in Events("place") : e.g # inv[1]
        /\ last.err = "Can't find changed layer" =>
               \A e \in Events("throw"), q \in Events("place") : e.g # q.g

\* The failure comes after a nested invocation has placed a node below a
\* child composite, and before any placement on the root.
C6_Witness ==
    /\ Applied /\ ~last.ok
    /\ last.err = "Can't find changed layer"
    /\ \E e \in Events("throw") : e.g = root /\ e.id = MarkerId
    /\ Events("place") # {}
    /\ \A e \in Events("place") : e.g # root

(***************************************************************************)
(* C7.  A batch holding an index-carrying record, neither removed nor      *)
(* added, that names an id changedLayers lacks is recoverable: the         *)
(* applicator does not fail, skips the record and places every other       *)
(* record as it does without it.                                           *)
(***************************************************************************)
C7_AbsentRecordSkipped ==
    Applied =>
        LET drop == {r \in recordsOf(last.changes) : Absent(r) /\ ~r.removed}
            rest == Rerun(without(last.changes, drop))
        IN (drop # {} /\ rest.ok) =>
               /\ last.ok
               /\ heap = rest.heap

(***************************************************************************)
(* C4.  The host's final document, as a batch describes it.  A record's    *)
(* index is the index of its node's last slot; its node takes refSize      *)
(* slots; the records of a composite fit when, walking the composite's     *)
(* slots from its first one, each record's node starts where the walk      *)
(* stands, the children the composite already holds filling the gaps in    *)
(* their order.                                                            *)
(***************************************************************************)
recNode(rec) == last.cl0[rec.id].layer

recIsGroup(rec) ==
    IF rec.added THEN rec.type = GroupType
    ELSE recNode(rec) # Null /\ isGroup(last.pre, recNode(rec))

Counted(rec) == rec.hasIndex /\ ~rec.removed

RECURSIVE refSize(_)
refSize(rec) ==
    IF ~recIsGroup(rec) THEN 1
    ELSE LET own == IF rec.added THEN 2 ELSE getSize(last.pre, recNode(rec))
             ls == rec.layers
             acc[i \in 0..Len(ls)] ==
                 IF i = 0 THEN own
                 ELSE acc[i - 1] + (IF Counted(ls[i]) THEN refSize(ls[i]) ELSE 0)
         IN acc[Len(ls)]

heldSizes(rec) ==
    IF rec.added THEN <<>>
    ELSE [i \in 1..Len(last.pre[recNode(rec)].layers) |->
             getSize(last.pre, last.pre[recNode(rec)].layers[i])]

RECURSIVE fits(_, _, _, _, _)
\* recs from the ri-th on fit, the walk standing at slot p with the held
\* children from the ei-th on still to come.
fits(held, recs, p, ei, ri) ==
    IF ri > Len(recs) THEN TRUE
    ELSE LET rec == recs[ri]
             start == rec.index - (refSize(rec) - 1)
         IN IF ~Counted(rec)
            THEN fits(held, recs, p, ei, ri + 1)
            ELSE IF p = start
                 THEN /\ rec.hasLayers =>
                            /\ recIsGroup(rec)
                            /\ fits(heldSizes(rec), sortByIndex(rec.layers),
                                    start + 1, 1, 1)
                      /\ fits(held, recs, p + refSize(rec), ei, ri + 1)
                 ELSE /\ p < start
                      /\ ei <= Len(held)
                      /\ fits(held, recs, p + held[ei], ei + 1, ri)

\* Every record carries an index; an added record names a new id and has an
\* empty entry; any other names a node that the caller has detached.
WellFormed(rec) ==
    /\ rec.hasIndex
    /\ rec.added => (last.cl0[rec.id].has /\ recNode(rec) = Null
                       /\ rec.type \in LeafTypes \cup {GroupType})
    /\ ~rec.added => (recNode(rec) # Null /\ ~Attached(last.pre, recNode(rec)))
    /\ rec.removed => ~rec.hasLayers

HostBatch ==
    /\ Applied
    /\ last.detached
    /\ \A rec \in recordsOf(last.changes) : WellFormed(rec)
    /\ fits([i \in 1..Len(last.pre[root].layers) |->
                getSize(last.pre, last.pre[root].layers[i])],
            sortByIndex(last.changes), 0, 1, 1)

(***************************************************************************)
(* C4.  When the applicator is invoked on the root with a batch that       *)
(* describes the host's final document, the nodes the batch names having   *)
(* been detached beforehand, and the invocation completes, then every node *)
(* placed by a record, at any depth, has root.findLayer(record.id).index   *)
(* equal to record.index.                                                  *)
(***************************************************************************)
C4_HostIndex ==
    (HostBatch /\ last.ok) =>
        \A e \in Events("place") :
            \A rec \in recordsOf(last.changes) :
                rec.id = e.id =>
                    LET r == findLayer(heap, root, rec.id)
                    IN r.found /\ r.index = rec.index

\* The same without added composites that carry nested records: the
\* constructor builds their children and the nested invocation adds them
\* again.
C4_HostIndexNoAddedSubtree ==
    (HostBatch /\ last.ok
        /\ \A rec \in recordsOf(last.changes) : ~(rec.added /\ rec.hasLayers)) =>
        \A e \in Events("place") :
            \A rec \in recordsOf(last.changes) :
                rec.id = e.id =>
                    LET r == findLayer(heap, root, rec.id)
                    IN r.found /\ r.layer = last.cl[rec.id].layer
                       /\ r.index = rec.index

\* The applicator reached the record: it materialized it or threw at it.
Reached(rec) ==
    \E e \in Events("materialize") \cup Events("throw") : e.id = rec.id

\* The factory failed on the record (an unrecognized type in it or below it).
FactoryFailed(rec) ==
    \E e \in Events("throw") : e.id = rec.id /\ last.err = "Unknown layer type"

\* changedLayers maps the record's id to a node made by this invocation.
Registered(rec) ==
    /\ last.cl[rec.id].has
    /\ last.cl[rec.id].layer \in Addrs(heap) \ Addrs(last.pre)
    /\ heap[last.cl[rec.id].layer].id = rec.id

(***************************************************************************)
(* C11.  For every index-carrying record marked added that the applicator  *)
(* reaches, changedLayers maps the record's id to the node the factory     *)
(* made for it, whether or not the caller's changedLayers had an entry for *)
(* the id, and the invocation does not end in a TypeError at that record.  *)
(***************************************************************************)
C11_AddedRegistered ==
    Applied =>
        \A rec \in recordsOf(last.changes) :
            (rec.hasIndex /\ rec.added /\ Reached(rec) /\ ~FactoryFailed(rec)) =>
                /\ Registered(rec)
                /\ ~(\E e \in Events("throw") :
                        e.id = rec.id /\ last.err = "TypeError")

\* What the code delivers: the same when the caller's changedLayers has an
\* entry for the id.
C11_AddedRegisteredWithEntry ==
    Applied =>
        \A rec \in recordsOf(last.changes) :
            (rec.hasIndex /\ rec.added /\ Reached(rec) /\ ~FactoryFailed(rec)
                /\ last.cl0[rec.id].has) =>
                Registered(rec)

\* The entries of g's child sequence in heap h.
childrenOf(h, g) == {h[g].layers[i] : i \in 1..Len(h[g].layers)}

\* The last operation was a.detach().
Detached == Done > 0 /\ last.op = "detach"

(***************************************************************************)
(* C12.  detach() on a node whose owner g holds it (ids being unique among *)
(* g's children) removes that node's entry from g's child sequence, keeps  *)
(* the other children of g in their order, changes no other composite's    *)
(* child sequence and lowers g.getSize() by the node's size; on a node     *)
(* with no owner it changes nothing; when g's child sequence has no child  *)
(* with the node's id it fails and leaves g's child sequence unchanged.    *)
(***************************************************************************)
C12_Detach ==
    Detached =>
        LET a == last.a
            g == last.pre[a].group
            sameId == IF g = Null THEN {}
                      ELSE {c \in childrenOf(last.pre, g) :
                               last.pre[c].id = last.pre[a].id}
        IN /\ g = Null => (last.ok /\ heap = last.pre)
           /\ (g # Null /\ sameId = {}) =>
                  (~last.ok /\ heap[g].layers = last.pre[g].layers
                      /\ heap = last.pre)
           /\ (g # Null /\ sameId = {a}) =>
                  /\ last.ok
                  /\ heap[g].layers =
                         SelectSeq(last.pre[g].layers, LAMBDA c : c # a)
                  /\ Len(heap[g].layers) = Len(last.pre[g].layers) - 1
                  /\ \A c \in Addrs(heap) \ {g} :
                         heap[c].layers = last.pre[c].layers
                  /\ getSize(heap, g) =
                         getSize(last.pre, g) - getSize(last.pre, a)

\* A composite with a child, detached from in front of a sibling.
C12_Witness ==
    /\ Detached /\ last.ok
    /\ last.g # Null
    /\ Len(last.pre[last.g].layers) >= 2
    /\ last.pre[last.g].layers[1] = last.a
    /\ last.pre[last.a].layers # <<>>
    /\ Len(heap[last.g].layers) = Len(last.pre[last.g].layers) - 1

(***************************************************************************)
(* C13.  As claimed: in every built tree findLayer on the root gives each  *)
(* composite the position of its opening slot in the traversal; in         *)
(* root[A, G[B]] it gives G index 1.                                       *)
(***************************************************************************)
C13_FindCompositeOpening ==
    Built =>
        /\ \A n \in subtree(heap, root) \ {root} :
               isGroup(heap, n) =>
                   LET r == findLayer(heap, root, heap[n].id)
                   IN /\ r.found
                      /\ r.layer = n
                      /\ r.index = slotIndex(heap, root, n, "open")
        /\ toString(heap, root) = ScenarioTree =>
               findLayer(heap, root, "G").index = 1

(***************************************************************************)
(* C13 as amended.  In every built tree findLayer on the root gives each   *)
(* composite the position of its closing slot in the traversal, which is   *)
(* that of its opening slot plus getSize() - 1; in root[A, G[B]] it gives  *)
(* G index 3.                                                              *)
(***************************************************************************)
C13_FindCompositeClosing ==
    Built =>
        /\ \A n \in subtree(heap, root) \ {root} :
               isGroup(heap, n) =>
                   LET r == findLayer(heap, root, heap[n].id)
                   IN /\ r.found
                      /\ r.layer = n
                      /\ r.index = slotIndex(heap, root, n, "close")
                      /\ r.index = slotIndex(heap, root, n, "open")
                                     + getSize(heap, n) - 1
        /\ toString(heap, root) = ScenarioTree =>
               findLayer(heap, root, "G").index = 3

C13_Witness ==
    /\ Built
    /\ toString(heap, root) = ScenarioTree
    /\ findLayer(heap, root, "G").found
    /\ findLayer(heap, root, "G").index = 3
    /\ slotIndex(heap, root, findLayer(heap, root, "G").layer, "open") = 1

\* The last operation was _applyChange on a leaf with a record of its id.
LeafApplied == Done > 0 /\ last.op = "applyLeaf" /\ last.ok

(***************************************************************************)
(* C14.  _applyChange on a leaf with a record of the leaf's id returns the *)
(* list of the change results produced: empty when the record has no name  *)
(* field or its name is the leaf's current name, exactly one rename result *)
(* when the name differs; the list holds nothing but change results.       *)
(***************************************************************************)
C14_LeafApplyChange ==
    LeafApplied =>
        LET before == last.pre[last.a].name
        IN /\ \A i \in 1..Len(last.changes) : last.changes[i].kind = "result"
           /\ IF ~last.change.hasName \/ last.change.name = before
              THEN last.changes = <<>>
              ELSE /\ Len(last.changes) = 1
                   /\ last.changes[1].res.defined
                   /\ last.changes[1].res.op = "rename"
                   /\ last.changes[1].res.newName = last.change.name

\* What the code delivers: the name is set; the list is empty without a
\* name field and otherwise holds one item, the list itself.
C14_LeafApplyChangePushesList ==
    LeafApplied =>
        /\ heap[last.a].name =
               (IF last.change.hasName THEN last.change.name
                ELSE last.pre[last.a].name)
        /\ last.changes = IF last.change.hasName THEN <<ArrayItem>> ELSE <<>>

\* The last operation was createLayer(parent, raw).
Created == Done > 0 /\ last.op = "create"

RECURSIVE Recognized(_)
\* Every descriptor below raw has a recognized type.
Recognized(raw) ==
    \A i \in 1..Len(raw.layers) :
        /\ raw.layers[i].type \in LeafTags \cup {GroupType}
        /\ Recognized(raw.layers[i])

(***************************************************************************)
(* C15.  createLayer(parent, raw): with no parent and no type field it     *)
(* returns a composite without owner; otherwise it returns a composite for *)
(* "layerSection" and a leaf of size 1 for each of the six leaf types      *)
(* (owned by parent); for any other type, an absent one with a parent      *)
(* included, it fails and no node is created.  In no case is a node put    *)
(* into a child sequence of the tree.                                      *)
(***************************************************************************)
C15_CreateLayer ==
    /\ Built => (isGroup(heap, root) /\ heap[root].group = Null)
    /\ Created =>
          LET raw == last.raw
              parent == last.g
              a == last.a
          IN /\ \A c \in Addrs(last.pre) : heap[c] = last.pre[c]
             /\ IF parent = Null /\ raw.type = NoType
                THEN Recognized(raw) =>
                         (last.ok /\ isGroup(heap, a) /\ heap[a].group = Null)
                ELSE IF raw.type = GroupType
                THEN Recognized(raw) =>
                         (last.ok /\ isGroup(heap, a) /\ heap[a].group = parent)
                ELSE IF raw.type \in LeafTags
                THEN /\ last.ok
                     /\ ~isGroup(heap, a)
                     /\ getSize(heap, a) = 1
                     /\ heap[a].group = parent
                     /\ heap[a].id = raw.id
                     /\ Len(heap) = Len(last.pre) + 1
                ELSE ~last.ok /\ heap = last.pre

\* A descriptor without type handed in with a parent: the call fails.
C15_Witness ==
    /\ Created /\ ~last.ok
    /\ last.g # Null /\ last.g # root
    /\ last.raw.type = NoType
    /\ heap = last.pre

\* The places where node n is an entry of a child sequence.
occurrences(h, n) ==
    {<<g, i>> \in Addrs(h) \X (1..Len(h)) :
        i <= Len(h[g].layers) /\ h[g].layers[i] = n}

\* Every node is an entry of at most one child sequence, once, and its
\* group is the composite that holds it (none when no composite does).
OneOwner(h) ==
    \A n \in Addrs(h) :
        /\ Cardinality(occurrences(h, n)) <= 1
        /\ \A g \in Addrs(h) : h[n].group = g <=> n \in childrenOf(h, g)
        /\ h[n].group = Null <=> occurrences(h, n) = {}

\* Only detach() calls and successful addLayerAtIndex calls were made on
\* the snapshot.
DetachesAndAdds ==
    /\ root # Null
    /\ \A i \in 1..Done :
           \/ hist[i].op = "detach"
           \/ hist[i].op = "add" /\ hist[i].ok

(***************************************************************************)
(* C16.  In every state reached from a built snapshot by detach() calls    *)
(* and successful addLayerAtIndex calls, every node is an entry of at most *)
(* one child sequence, at most once, and its group is composite g exactly  *)
(* when it is an entry of g's child sequence; so a detached node has no    *)
(* owner and a second detach() on it does nothing.                         *)
(***************************************************************************)
C16_OneOwner ==
    DetachesAndAdds =>
        /\ OneOwner(heap)
        /\ (Done = 2 /\ hist[1].op = "detach" /\ hist[1].ok
               /\ hist[1].pre[hist[1].a].group # Null
               /\ last.op = "detach" /\ last.a = hist[1].a) =>
               (last.ok /\ heap = last.pre)

\* The part that holds: no node is ever an entry of two child sequences or
\* twice of one, and a node that is an entry of g's has group g.
C16_AtMostOnce ==
    DetachesAndAdds =>
        \A n \in Addrs(heap) :
            /\ Cardinality(occurrences(heap, n)) <= 1
            /\ \A g \in Addrs(heap) : n \in childrenOf(heap, g) => heap[n].group = g

(***************************************************************************)
(* C16, for the change applicator: after an invocation that completes, a   *)
(* node that a record of the batch placed is an entry of one child         *)
(* sequence only, the one it was placed in.                                *)
(***************************************************************************)
C16_RepositionedOnce ==
    (Applied /\ last.ok /\ OneOwner(last.pre)) =>
        \A e \in Events("place") :
            Cardinality(occurrences(heap, last.cl[e.id].layer)) = 1

\* An index-carrying record marked removed whose node changedLayers holds
\* and a composite held when the applicator started.
RemovedAttached(rec) ==
    /\ rec.hasIndex /\ rec.removed
    /\ last.cl0[rec.id].has /\ last.cl0[rec.id].layer # Null
    /\ Attached(last.pre, last.cl0[rec.id].layer)

(***************************************************************************)
(* C17.  After an invocation that completes, the node of every             *)
(* index-carrying removed record that was registered and attached is in no *)
(* child sequence and its former owner's size has dropped by the node's    *)
(* size; no removed record is placed, and none adds to finalSize.          *)
(***************************************************************************)
C17_RemovedDetached ==
    (Applied /\ last.ok) =>
        \A rec \in recordsOf(last.changes) :
            RemovedAttached(rec) =>
                LET n == last.cl0[rec.id].layer
                    owner == last.pre[n].group
                IN /\ occurrences(heap, n) = {}
                   /\ getSize(heap, owner) =
                          getSize(last.pre, owner) - getSize(last.pre, n)
                   /\ ~(\E e \in Events("place") : e.id = rec.id)

\* The part that holds: a removed record is never placed, and a batch of
\* one removed record leaves finalSize at the composite's size.
C17_RemovedNotPlaced ==
    Applied =>
        /\ \A rec \in recordsOf(last.changes) :
               (rec.hasIndex /\ rec.removed) =>
                   ~(\E e \in Events("place") : e.id = rec.id)
        /\ (Len(last.changes) = 1 /\ last.changes[1].removed /\ last.ok) =>
               /\ \A e \in Events("sized") : e.n = getSize(last.pre, root)
               /\ heap = last.pre

NestedIn(Y, X) ==
    \E p, q \in 1..Len(last.log) :
        /\ p < q
        /\ last.log[p].ev = "enter" /\ last.log[p].g = X
        /\ last.log[q].ev = "enter" /\ last.log[q].g = Y
        /\ \A r \in (p + 1)..(q - 1) :
               ~(last.log[r].ev = "sized" /\ last.log[r].g = X)

(***************************************************************************)
(* C19.  Two phases: in the trace of an invocation, once a node has been   *)
(* inserted into composite X, the invocation on X materializes no further  *)
(* record and starts no nested invocation, and no step of an invocation    *)
(* nested in X's follows; every record of X's batch was materialized and   *)
(* every nested invocation was over before the first insertion into X.     *)
(***************************************************************************)
C19_TwoPhase ==
    Applied =>
        /\ \A i, j \in 1..Len(last.log) :
               (i < j /\ last.log[i].ev = "place") =>
                   /\ last.log[j].g = last.log[i].g =>
                          last.log[j].ev \in {"place", "warn", "throw"}
                   /\ last.log[j].g # last.log[i].g =>
                          ~NestedIn(last.log[j].g, last.log[i].g)
        /\ \A inv \in invocations(root, last.changes) :
               \A i \in 1..Len(last.log) :
                   (last.log[i].ev = "place" /\ last.log[i].g = inv[1]) =>
                       \A k \in 1..Len(inv[2]) :
                           inv[2][k].hasIndex =>
                               \E j \in 1..(i - 1) :
                                   /\ last.log[j].g = inv[1]
                                   /\ last.log[j].id = inv[2][k].id
                                   /\ last.log[j].ev \in {"materialize", "absent"}

\* A nested invocation placed a node, then the root placed the composite.
C19_Witness ==
    /\ Applied /\ last.ok
    /\ \E i, j \in 1..Len(last.log) :
           /\ i < j
           /\ last.log[i].ev = "place" /\ last.log[i].g # root
           /\ last.log[j].ev = "place" /\ last.log[j].g = root
           /\ NestedIn(last.log[i].g, root)

\* The last operation was an addLayerAtIndex call that failed.
AddFailed == Done > 0 /\ last.op = "add" /\ ~last.ok

(***************************************************************************)
(* C20.  A failed insertion is atomic: when addLayerAtIndex fails, at the  *)
(* composite it was called on or at one it recursed into, no child         *)
(* sequence has changed and the node's group is what it was before the     *)
(* call.                                                                   *)
(***************************************************************************)
C20_FailedAddAtomic ==
    AddFailed =>
        /\ \A c \in Addrs(last.pre) : heap[c].layers = last.pre[c].layers
        /\ heap[last.a].group = last.pre[last.a].group
        /\ heap = last.pre

\* The call recursed into a composite child that does not own the node,
\* and failed there.
C20_Witness ==
    /\ AddFailed
    /\ 0 <= last.t /\ last.t <= getSize(last.pre, last.g) - 2
    /\ \E k \in 1..Len(last.pre[last.g].layers) :
           /\ InsideSpan(last.pre, last.g, k, last.a, last.t)
           /\ last.pre[last.a].group # last.pre[last.g].layers[k]
    /\ heap = last.pre

====
